---- MODULE Spec2Model ----
(***************************************************************************)
(* Vaillant vSMART integration: the polling coordinator of entity.py       *)
(* (fetch devices, fan out measurement requests, merge, publish) and the   *)
(* sensor platform of sensor.py (entity registration, unique ids, native   *)
(* values read from the published data).                                   *)
(*                                                                         *)
(* A poll cycle is one run of VaillantCoordinator._update_method.  Its     *)
(* steps are cut at the coroutine's await points; the synchronous tail     *)
(* (merge, build VaillantData, return) is cut in three steps so that the   *)
(* merged device list can be observed before it is published.  Nothing    *)
(* else reads or writes the cycle's locals, so the cut adds no behaviour.  *)
(***************************************************************************)
EXTENDS Integers, Sequences, FiniteSets, TLC

VARIABLES
    pc,             \* position of _update_method: idle, devices, temperature, energy, merge, return
    devices,        \* local `devices` of _update_method (merged in place)
    tasks,          \* the awaitables handed to the asyncio.gather now awaited
    gather_exc,     \* exception the awaited gather will propagate ("none" if none yet)
    measurements,   \* local `measurements` of _update_method
    energy_usage,   \* local `energy_usage` of _update_method
    data,           \* coordinator.data, what entities read
    outcome,        \* how the last poll cycle ended
    entities,       \* entities handed to async_add_devices
    add_calls,      \* number of async_add_devices calls
    polls,          \* number of poll cycles started
    fetched,        \* history: devices as returned by async_get_thermostats_data
    answered,       \* history: responses the client gave, with the module each request was issued for
    raised,         \* history: kinds of exception client calls raised in this cycle
    calls           \* history: client calls issued in this cycle

vars == <<pc, devices, tasks, gather_exc, measurements, energy_usage, data, outcome,
          entities, add_calls, polls, fetched, answered, raised, calls>>

cycle_vars == <<pc, devices, tasks, gather_exc, measurements, energy_usage, outcome,
                polls, fetched, answered, raised, calls>>

(***************************************************************************)
(* Bounds and input domains                                                *)
(***************************************************************************)
MaxPolls == 2

NoData == [none |-> TRUE]

\* exception kinds of the client library that _update_method names
UNAUTHORIZED == "RequestUnauthorizedException"
OTHER_API == "ApiException"
ExceptionKinds == {UNAUTHORIZED, OTHER_API}

\* MeasurementType members used by the coordinator
TEMPERATURE == "TEMPERATURE"
SETPOINT_TEMPERATURE == "SETPOINT_TEMPERATURE"
SUM_ENERGY_GAS_HEATING == "SUM_ENERGY_GAS_HEATING"
SUM_ENERGY_GAS_WATER == "SUM_ENERGY_GAS_WATER"

Item(v) == [value |-> v]

\* what async_get_measure may return: a list of MeasurementItem
ClientResponses ==
    { <<>>,
      <<Item(<<1>>), Item(<<>>)>>,
      <<Item(<<2>>), Item(<<2, 1>>)>> }

\* the same, for the polls of an account with several modules
WideResponses ==
    { <<>>,
      <<Item(<<1>>), Item(<<1, 2>>)>> }

\* the `measured` block a module carries when async_get_thermostats_data returns it
FetchedMeasured ==
    { [temperature |-> 0, setpoint_temp |-> 3, gas_heating_usage |-> <<>>, gas_water_usage |-> <<>>],
      [temperature |-> 3, setpoint_temp |-> 0, gas_heating_usage |-> <<3>>, gas_water_usage |-> <<0, 3>>] }

Mod(mid, m) == [id |-> mid, measured |-> m]
Dev(did, mods) == [id |-> did, modules |-> mods]

\* what async_get_thermostats_data may return: a list of Device, each with its modules
DeviceLists ==
    { <<>> }
    \cup { <<Dev("d1", <<Mod(m, x)>>)>> : m \in {"m1", "m2"}, x \in FetchedMeasured }

\* the same, for an account with several devices or modules
WideDeviceLists ==
    { <<Dev("d1", <<Mod("m1", x), Mod(m, y)>>)>> :
          m \in {"m2", "m1_gas_water"}, x \in FetchedMeasured, y \in FetchedMeasured }
    \cup { <<Dev("d1", <<Mod("m1", x)>>), Dev("d2", <<Mod(m, y)>>)>> :
          m \in {"m1", "m2"}, x \in FetchedMeasured, y \in FetchedMeasured }

(***************************************************************************)
(* Helpers                                                                 *)
(***************************************************************************)
RECURSIVE SumLen(_, _)
SumLen(devs, n) == IF n = 0 THEN 0 ELSE SumLen(devs, n - 1) + Len(devs[n].modules)

\* number of modules over all devices of a device list
ModuleCount(devs) == SumLen(devs, Len(devs))

\* positions <<d, k>> of the modules in the order `for device ... for module ...` visits them
RECURSIVE Positions(_, _)
Positions(devs, n) ==
    IF n = 0 THEN <<>>
    ELSE Positions(devs, n - 1) \o [k \in 1..Len(devs[n].modules) |-> <<n, k>>]

ModulePositions(devs) == Positions(devs, Len(devs))

\* 0-based rank of module <<d, k>> in that order
Rank(devs, d, k) == SumLen(devs, d - 1) + (k - 1)

(***************************************************************************)
(* The merge (pure functions of entity.py)                                 *)
(***************************************************************************)
\* a merge that drops the default when the last item has no values
_get_measurement_value_no_default(ms, default_value) ==
    IF ms = <<>> THEN default_value
    ELSE IF ms[Len(ms)].value # <<>> THEN ms[Len(ms)].value[Len(ms[Len(ms)].value)]
    ELSE -1

\* measure = measurements[-1] if measurements else None
\* return measure.value[-1] if measure and measure.value else default_value
_get_measurement_value(ms, default_value) ==
    IF ms # <<>> /\ ms[Len(ms)].value # <<>>
    THEN ms[Len(ms)].value[Len(ms[Len(ms)].value)]
    ELSE default_value

\* a merge that reads the first item instead of the last
_get_energy_measurement_value_first_item(ms, default_value) ==
    IF ms # <<>> /\ ms[1].value # <<>>
    THEN ms[1].value
    ELSE default_value

\* return measure.value if measure and measure.value else default_value
_get_energy_measurement_value(ms, default_value) ==
    IF ms # <<>> /\ ms[Len(ms)].value # <<>>
    THEN ms[Len(ms)].value
    ELSE default_value

\* an index advanced by one per module instead of two
MergeIndex_by_one(r) == r

\* index `i` of _update_measured_data when the loop reaches the module of 0-based rank r
MergeIndex(r) == 2 * r

\* one module after the body of the loop ran for it with index i (0-based, as in the code)
MergeModule(module, ms, eu, i) ==
    [module EXCEPT
        !.measured.temperature = _get_measurement_value(ms[i + 1], @),
        !.measured.setpoint_temp = _get_measurement_value(ms[i + 2], @),
        !.measured.gas_heating_usage = _get_energy_measurement_value(eu[i + 1], @),
        !.measured.gas_water_usage = _get_energy_measurement_value(eu[i + 2], @)]

\* the device list after _update_measured_data(devices, measurements, energy_usage)
_update_measured_data(devs, ms, eu) ==
    [d \in 1..Len(devs) |->
        [devs[d] EXCEPT !.modules =
            [k \in 1..Len(devs[d].modules) |->
                MergeModule(devs[d].modules[k], ms, eu, MergeIndex(Rank(devs, d, k)))]]]

(***************************************************************************)
(* Fan-out of the measurement requests                                     *)
(***************************************************************************)
\* one async_get_measure call, not yet completed; `owner` records the module it was issued for
Request(devs, pos, type) ==
    [device_id |-> devs[pos[1]].id,
     module_id |-> devs[pos[1]].modules[pos[2]].id,
     type |-> type,
     owner |-> pos,
     state |-> "pending",
     result |-> <<>>]

\* two requests per module, in the order the loops append them
TasksFor(devs, first, second) ==
    LET ps == ModulePositions(devs) IN
    [n \in 1..(2 * Len(ps)) |->
        Request(devs, ps[(n + 1) \div 2], IF n % 2 = 1 THEN first ELSE second)]

\* temperature_tasks of _get_temperature_measurements_for_all_devices
TemperatureTasks(devs) == TasksFor(devs, TEMPERATURE, SETPOINT_TEMPERATURE)

\* gas_usage_tasks of _get_energy_usage_measurements_for_all_devices
EnergyTasks(devs) == TasksFor(devs, SUM_ENERGY_GAS_HEATING, SUM_ENERGY_GAS_WATER)

\* asyncio.gather(*tasks): the results in the order of the awaitables
GatherResults(ts) == [n \in 1..Len(ts) |-> ts[n].result]

\* a gather that returns as soon as one awaitable is done
AllDone_first_completed(ts) == ts = <<>> \/ \E n \in 1..Len(ts) : ts[n].state = "done"

\* the awaited gather returns once every awaitable is done
AllDone(ts) == \A n \in 1..Len(ts) : ts[n].state = "done"

(***************************************************************************)
(* VaillantData                                                            *)
(***************************************************************************)
\* {x.id: x for x in seq}: the last element with a given id wins
RECURSIVE DictById(_, _)
DictById(seq, n) ==
    IF n = 0 THEN <<>>
    ELSE LET rest == DictById(seq, n - 1) IN
         [i \in (DOMAIN rest) \cup {seq[n].id} |-> IF i = seq[n].id THEN seq[n] ELSE rest[i]]

RECURSIVE AllModules(_, _)
AllModules(devs, n) ==
    IF n = 0 THEN <<>> ELSE AllModules(devs, n - 1) \o devs[n].modules

\* VaillantData(client, devices): lookup tables by id; `order` is the order of the devices dict
VaillantData(devs) ==
    [devices |-> DictById(devs, Len(devs)),
     modules |-> LET ms == AllModules(devs, Len(devs)) IN DictById(ms, Len(ms)),
     order |-> devs]

\* except clauses that report every failure as UpdateFailed
RaisedBy_update_failed(kind) == "UpdateFailed"

\* the except clauses of _update_method
RaisedBy(kind) == IF kind = UNAUTHORIZED THEN "ConfigEntryAuthFailed" ELSE "UpdateFailed"

(***************************************************************************)
(* Sensor platform (sensor.py)                                             *)
(***************************************************************************)
BATTERY == "VaillantBatterySensor"
GAS_WATER == "VaillantGasWaterSensor"
GAS_HEATING == "VaillantGasHeatingSensor"

\* VaillantEntity.__init__(coordinator, device_id, module_id)
VaillantEntity(kind, device_id, module_id) ==
    [kind |-> kind, _device_id |-> device_id, _module_id |-> module_id]

\* [Kind(coordinator, device.id, module.id) for device in data.devices.values() for module in device.modules]
\* the devices dict keeps one device per id: the last one of the list, at the place of the first
DictValues(d) ==
    LET first(n) == \A j \in 1..(n - 1) : d.order[j].id # d.order[n].id
        keep == SelectSeq([n \in 1..Len(d.order) |-> [n |-> n, id |-> d.order[n].id]],
                          LAMBDA e : first(e.n))
    IN [n \in 1..Len(keep) |-> d.devices[keep[n].id]]

SensorsOf(kind, d) ==
    LET devs == DictValues(d)
        ps == ModulePositions(devs)
    IN [n \in 1..Len(ps) |->
            VaillantEntity(kind, devs[ps[n][1]].id, devs[ps[n][1]].modules[ps[n][2]].id)]

\* a setup that leaves out the gas heating sensors
NewDevices_without_heating(d) == SensorsOf(BATTERY, d) \o SensorsOf(GAS_WATER, d)

\* new_devices of async_setup_entry
NewDevices(d) == SensorsOf(BATTERY, d) \o SensorsOf(GAS_WATER, d) \o SensorsOf(GAS_HEATING, d)

\* VaillantEntity._device / _module: a dict lookup that raises KeyError on a missing key
Resolves(e, d) == e._device_id \in DOMAIN d.devices /\ e._module_id \in DOMAIN d.modules

\* VaillantEntity._module, where it resolves
_module(e, d) == d.modules[e._module_id]

\* a gas heating sensor that reuses the gas water suffix
unique_id_same_suffix(e, d) ==
    CASE e.kind = BATTERY -> d.modules[e._module_id].id
      [] e.kind = GAS_WATER -> d.modules[e._module_id].id \o "_gas_water"
      [] e.kind = GAS_HEATING -> d.modules[e._module_id].id \o "_gas_water"

\* unique_id of the three sensor classes
unique_id(e, d) ==
    CASE e.kind = BATTERY -> _module(e, d).id
      [] e.kind = GAS_WATER -> _module(e, d).id \o "_gas_water"
      [] e.kind = GAS_HEATING -> _module(e, d).id \o "_gas_heating"

\* str(x), kept apart from x itself
Str(x) == [str |-> x]
IndexError == [error |-> "IndexError"]

\* the list a gas sensor reads
GasList(e, d) ==
    IF e.kind = GAS_WATER THEN _module(e, d).measured.gas_water_usage
    ELSE _module(e, d).measured.gas_heating_usage

\* native_value of the gas sensors: str(usage[usage.__len__() - 1]); index -1 of an empty list raises
native_value(e, d) ==
    LET usage == GasList(e, d) IN
    IF Len(usage) = 0 THEN IndexError ELSE Str(usage[(Len(usage) - 1) + 1])

\* extra_state_attributes of the gas sensors
historical_values(e, d) == Str(GasList(e, d))

(***************************************************************************)
(* Initial state and actions                                               *)
(***************************************************************************)
Init ==
    /\ pc = "idle"
    /\ devices = <<>>
    /\ tasks = <<>>
    /\ gather_exc = "none"
    /\ measurements = <<>>
    /\ energy_usage = <<>>
    /\ data = NoData
    /\ outcome = "none"
    /\ entities = <<>>
    /\ add_calls = 0
    /\ polls = 0
    /\ fetched = <<>>
    /\ answered = {}
    /\ raised = {}
    /\ calls = 0

\* the coordinator's timer fires: _update_method starts and calls async_get_thermostats_data
StartPoll(max_polls) ==
    /\ pc = "idle"
    /\ polls < max_polls
    /\ pc' = "devices"
    /\ polls' = polls + 1
    /\ devices' = <<>>
    /\ tasks' = <<>>
    /\ gather_exc' = "none"
    /\ measurements' = <<>>
    /\ energy_usage' = <<>>
    /\ outcome' = "pending"
    /\ fetched' = <<>>
    /\ answered' = {}
    /\ raised' = {}
    /\ calls' = 1
    /\ UNCHANGED <<data, entities, add_calls>>

\* async_get_thermostats_data returns; the temperature requests are created and gathered
DevicesReturn(DL) ==
    /\ pc = "devices"
    /\ \E devs \in DL :
        /\ devices' = devs
        /\ fetched' = devs
        /\ tasks' = TemperatureTasks(devs)
        /\ calls' = calls + Len(TemperatureTasks(devs))
    /\ pc' = "temperature"
    /\ UNCHANGED <<gather_exc, measurements, energy_usage, data, outcome, entities,
                   add_calls, polls, answered, raised>>

\* an end by exception that still publishes the devices fetched so far
EndRaising_publishing(kind) ==
    /\ outcome' = RaisedBy(kind)
    /\ pc' = "idle"
    /\ data' = VaillantData(devices)

\* the end of a cycle by an exception of kind `kind`
EndRaising(kind) ==
    /\ outcome' = RaisedBy(kind)
    /\ pc' = "idle"
    /\ UNCHANGED data

\* async_get_thermostats_data raises
DevicesRaise ==
    /\ pc = "devices"
    /\ \E kind \in ExceptionKinds :
        /\ raised' = raised \cup {kind}
        /\ EndRaising(kind)
    /\ UNCHANGED <<devices, tasks, gather_exc, measurements, energy_usage, entities,
                   add_calls, polls, fetched, answered, calls>>

\* one gathered async_get_measure call returns
TaskReturn(CR) ==
    /\ pc \in {"temperature", "energy"}
    /\ \E n \in 1..Len(tasks), r \in CR :
        /\ tasks[n].state = "pending"
        /\ tasks' = [tasks EXCEPT ![n].state = "done", ![n].result = r]
        /\ answered' = answered \cup {[tasks[n] EXCEPT !.state = "done", !.result = r]}
    /\ UNCHANGED <<pc, devices, gather_exc, measurements, energy_usage, data, outcome,
                   entities, add_calls, polls, fetched, raised, calls>>

\* one gathered async_get_measure call raises; gather keeps the first exception only
TaskRaise ==
    /\ pc \in {"temperature", "energy"}
    /\ \E n \in 1..Len(tasks), kind \in ExceptionKinds :
        /\ tasks[n].state = "pending"
        /\ tasks' = [tasks EXCEPT ![n].state = "failed"]
        /\ raised' = raised \cup {kind}
        /\ gather_exc' = IF gather_exc = "none" THEN kind ELSE gather_exc
    /\ UNCHANGED <<pc, devices, measurements, energy_usage, data, outcome, entities,
                   add_calls, polls, fetched, answered, calls>>

\* the awaited gather propagates its exception into _update_method
GatherRaise ==
    /\ pc \in {"temperature", "energy"}
    /\ gather_exc # "none"
    /\ EndRaising(gather_exc)
    /\ UNCHANGED <<devices, tasks, gather_exc, measurements, energy_usage, entities,
                   add_calls, polls, fetched, answered, raised, calls>>

\* the temperature gather returns; the gas usage requests are created and gathered
TemperatureGatherReturn ==
    /\ pc = "temperature"
    /\ AllDone(tasks)
    /\ measurements' = GatherResults(tasks)
    /\ tasks' = EnergyTasks(devices)
    /\ calls' = calls + Len(EnergyTasks(devices))
    /\ pc' = "energy"
    /\ UNCHANGED <<devices, gather_exc, energy_usage, data, outcome, entities, add_calls,
                   polls, fetched, answered, raised>>

\* the gas usage gather returns
EnergyGatherReturn ==
    /\ pc = "energy"
    /\ AllDone(tasks)
    /\ energy_usage' = GatherResults(tasks)
    /\ pc' = "merge"
    /\ UNCHANGED <<devices, tasks, gather_exc, measurements, data, outcome, entities,
                   add_calls, polls, fetched, answered, raised, calls>>

\* self._update_measured_data(devices, measurements, energy_usage)
UpdateMeasuredData ==
    /\ pc = "merge"
    /\ devices' = _update_measured_data(devices, measurements, energy_usage)
    /\ pc' = "return"
    /\ UNCHANGED <<tasks, gather_exc, measurements, energy_usage, data, outcome, entities,
                   add_calls, polls, fetched, answered, raised, calls>>

\* return VaillantData(self._client, devices); the coordinator stores it as its data
ReturnData ==
    /\ pc = "return"
    /\ data' = VaillantData(devices)
    /\ outcome' = "VaillantData"
    /\ pc' = "idle"
    /\ UNCHANGED <<devices, tasks, gather_exc, measurements, energy_usage, entities,
                   add_calls, polls, fetched, answered, raised, calls>>

\* async_setup_entry, once the coordinator has data
AsyncSetupEntry ==
    /\ data # NoData
    /\ add_calls = 0
    /\ entities' = NewDevices(data)
    /\ add_calls' = add_calls + 1
    /\ UNCHANGED <<data>>
    /\ UNCHANGED cycle_vars

Next ==
    \/ StartPoll(MaxPolls)
    \/ DevicesReturn(DeviceLists)
    \/ DevicesRaise
    \/ TaskReturn(ClientResponses)
    \/ TaskRaise
    \/ GatherRaise
    \/ TemperatureGatherReturn
    \/ EnergyGatherReturn
    \/ UpdateMeasuredData
    \/ ReturnData
    \/ AsyncSetupEntry

Spec == Init /\ [][Next]_vars

\* the coordinator's first refresh, repeated until it succeeds
FirstRefresh ==
    /\ data = NoData
    /\ StartPoll(MaxPolls)

\* the first refresh and the platform setup of an account with several devices or modules
NextWide ==
    \/ FirstRefresh
    \/ DevicesReturn(WideDeviceLists)
    \/ DevicesRaise
    \/ TaskReturn(WideResponses)
    \/ TaskRaise
    \/ GatherRaise
    \/ TemperatureGatherReturn
    \/ EnergyGatherReturn
    \/ UpdateMeasuredData
    \/ ReturnData
    \/ AsyncSetupEntry

SpecWide == Init /\ [][NextWide]_vars

(***************************************************************************)
(* Vocabulary of the properties                                            *)
(***************************************************************************)
MeasurementTypes ==
    {TEMPERATURE, SETPOINT_TEMPERATURE, SUM_ENERGY_GAS_HEATING, SUM_ENERGY_GAS_WATER}

\* the measured field a measurement type is merged into
Field(module, type) ==
    CASE type = TEMPERATURE -> module.measured.temperature
      [] type = SETPOINT_TEMPERATURE -> module.measured.setpoint_temp
      [] type = SUM_ENERGY_GAS_HEATING -> module.measured.gas_heating_usage
      [] type = SUM_ENERGY_GAS_WATER -> module.measured.gas_water_usage

ModuleAt(devs, pos) == devs[pos[1]].modules[pos[2]]

PosSet(devs) == {ModulePositions(devs)[n] : n \in 1..Len(ModulePositions(devs))}

\* the response lacks a new sample: no item, or a last item without values
NoSample(r) == r = <<>> \/ r[Len(r)].value = <<>>

LastItem(r) == r[Len(r)]

\* the merge has run and its result is not yet published
Merged == pc = "return"

\* a poll cycle has ended and no other has started
CycleEnded == pc = "idle" /\ outcome # "none"

\* number of modules of the devices the cycle fetched
M == ModuleCount(fetched)

\* C1 as stated: a field without a new sample keeps the value it had in the data
\* published by the preceding successful poll cycle.
C1_PreviousPollValue ==
    (Merged /\ data # NoData) =>
        \A a \in answered :
            (NoSample(a.result) /\ ModuleAt(fetched, a.owner).id \in DOMAIN data.modules)
                => Field(ModuleAt(devices, a.owner), a.type)
                     = Field(data.modules[ModuleAt(fetched, a.owner).id], a.type)

\* C1 amended: a field whose request returned no new sample has, after the merge, the
\* value it carried in the device state fetched at the start of the same poll cycle.
C1_FallbackToFetched ==
    Merged =>
        \A a \in answered :
            NoSample(a.result)
                => Field(ModuleAt(devices, a.owner), a.type)
                     = Field(ModuleAt(fetched, a.owner), a.type)

C1_Witness ==
    /\ Merged
    /\ data # NoData
    /\ \E a \in answered :
        /\ a.result # <<>>
        /\ NoSample(a.result)
        /\ ModuleAt(fetched, a.owner).id \in DOMAIN data.modules
        /\ Field(ModuleAt(devices, a.owner), a.type)
             # Field(data.modules[ModuleAt(fetched, a.owner).id], a.type)

\* C2: a field whose request returned a last item with values is overwritten by the
\* latest sample: the last value of the last item for temperature and setpoint_temp,
\* the whole value list of the last item for the two gas usages.
C2_LatestSampleOverwrites ==
    Merged =>
        \A a \in answered :
            ~NoSample(a.result) =>
                LET v == LastItem(a.result).value
                    f == Field(ModuleAt(devices, a.owner), a.type)
                IN IF a.type \in {TEMPERATURE, SETPOINT_TEMPERATURE}
                   THEN f = v[Len(v)]
                   ELSE f = v

C2_Witness ==
    /\ Merged
    /\ \E a, b \in answered :
        /\ a.type = TEMPERATURE /\ b.type = SUM_ENERGY_GAS_WATER
        /\ Len(a.result) = 2 /\ Len(b.result) = 2
        /\ LastItem(a.result).value = <<2, 1>> /\ a.result[1].value = <<2>>
        /\ Field(ModuleAt(devices, a.owner), a.type) = 1
        /\ Field(ModuleAt(fetched, a.owner), a.type) = 3
        /\ Field(ModuleAt(devices, b.owner), b.type) = <<2, 1>>

\* C3: the data entities read changes only when a poll cycle returns, and then it is
\* the VaillantData of that cycle's merged devices; a cycle that ends in an exception
\* leaves it as it was.
C3_LastSuccessfulValueWins ==
    [][ /\ (data' # data) =>
              /\ pc = "return" /\ outcome' = "VaillantData"
              /\ data' = VaillantData(_update_measured_data(fetched, measurements, energy_usage))
        /\ (pc # "idle" /\ pc' = "idle" /\ outcome' # "VaillantData") => data' = data
        /\ (pc # "idle" /\ pc' = "idle" /\ outcome' = "VaillantData") =>
              data' = VaillantData(_update_measured_data(fetched, measurements, energy_usage))
      ]_vars

\* a poll failed in its gas usage phase after an earlier poll had succeeded
C3_Witness ==
    /\ CycleEnded
    /\ outcome = "UpdateFailed"
    /\ data # NoData
    /\ measurements # <<>>
    /\ \E pos \in PosSet(fetched) :
        /\ ModuleAt(fetched, pos).id \in DOMAIN data.modules
        /\ ModuleAt(fetched, pos) # data.modules[ModuleAt(fetched, pos).id]

\* C4 as stated: the outcome is VaillantData when no call raised, ConfigEntryAuthFailed
\* when any call raised RequestUnauthorizedException, UpdateFailed when any call raised
\* another ApiException.
C4_AnyCallDecides ==
    CycleEnded =>
        /\ raised = {} => outcome = "VaillantData"
        /\ UNAUTHORIZED \in raised => outcome = "ConfigEntryAuthFailed"
        /\ OTHER_API \in raised => outcome = "UpdateFailed"

\* the exception that reached _update_method first
FirstRaised == IF gather_exc # "none" THEN gather_exc ELSE CHOOSE k \in raised : TRUE

\* C4 amended: the outcome is VaillantData when no call raised; otherwise the first
\* exception to reach _update_method decides, ConfigEntryAuthFailed for
\* RequestUnauthorizedException and UpdateFailed for another ApiException.  No call is
\* issued again: the calls of a cycle are the device fetch and the requests gathered.
C4_FirstFailureDecides ==
    /\ CycleEnded =>
        /\ outcome \in {"VaillantData", "ConfigEntryAuthFailed", "UpdateFailed"}
        /\ raised = {} <=> outcome = "VaillantData"
        /\ (raised # {} /\ FirstRaised = UNAUTHORIZED) => outcome = "ConfigEntryAuthFailed"
        /\ (raised # {} /\ FirstRaised = OTHER_API) => outcome = "UpdateFailed"
    /\ raised # {} =>
        /\ pc \in {"temperature", "energy", "idle"}
        /\ calls = 1 + Len(measurements) + Len(tasks)
        /\ \A n \in 1..Len(tasks) : \A j \in 1..Len(tasks) :
              (tasks[n].owner = tasks[j].owner /\ tasks[n].type = tasks[j].type) => n = j

\* two gathered calls raised different exceptions and the first one decided
C4_Witness ==
    /\ CycleEnded
    /\ raised = ExceptionKinds
    /\ gather_exc = OTHER_API
    /\ outcome = "UpdateFailed"

\* the order of the steps of a poll cycle
StepsInOrder ==
    /\ (tasks # <<>> \/ answered # {}) => fetched = devices \/ pc \in {"return", "idle"}
    /\ tasks # <<>> => pc # "devices"
    /\ \A n \in 1..Len(tasks) :
          tasks[n].type \in {SUM_ENERGY_GAS_HEATING, SUM_ENERGY_GAS_WATER} =>
              /\ Len(measurements) = 2 * M
              /\ \A pos \in PosSet(fetched) : \A t \in {TEMPERATURE, SETPOINT_TEMPERATURE} :
                    \E a \in answered : a.owner = pos /\ a.type = t
    /\ (pc \in {"merge", "return"} \/ devices # fetched \/ outcome = "VaillantData") =>
          /\ Cardinality(answered) = 4 * M
          /\ \A pos \in PosSet(fetched) : \A t \in MeasurementTypes :
                \E a \in answered : a.owner = pos /\ a.type = t
    /\ (CycleEnded /\ outcome = "VaillantData") =>
          /\ devices = _update_measured_data(fetched, measurements, energy_usage)
          /\ data = VaillantData(devices)

\* C5 as stated: the steps are in order and every poll cycle issues 1 + 4*M calls.
C5_EveryCycleIssuesAll ==
    /\ StepsInOrder
    /\ CycleEnded => calls = 1 + 4 * M

\* C5 amended: the steps are in order; a poll cycle in which no call fails issues
\* exactly 1 + 4*M calls, and one that fails issues 1 (device fetch failed), 1 + 2*M
\* (a temperature or setpoint request failed) or 1 + 4*M (a gas usage request failed).
C5_StepsInOrder ==
    /\ StepsInOrder
    /\ (CycleEnded /\ outcome = "VaillantData") => calls = 1 + 4 * M
    /\ (CycleEnded /\ outcome # "VaillantData") =>
          calls = IF gather_exc = "none" THEN 1
                  ELSE IF measurements = <<>> THEN 1 + 2 * M
                  ELSE 1 + 4 * M

C5_Witness ==
    /\ CycleEnded
    /\ outcome = "VaillantData"
    /\ M = 1
    /\ calls = 5

\* the entities async_add_devices received, as a set of indices
EntityIndices(es) == 1..Len(es)

\* C6: the one async_add_devices call of async_setup_entry hands over, for every module
\* of every device of the coordinator data, one battery, one gas water and one gas
\* heating sensor bound to that device id and module id, and nothing else: 3*M entities.
C6_ThreeSensorsPerModule ==
    [][ (add_calls' # add_calls) =>
          LET devs == DictValues(data)
              ps == PosSet(devs)
              es == entities'
          IN /\ add_calls = 0 /\ add_calls' = 1
             /\ Len(es) = 3 * ModuleCount(devs)
             /\ \A n \in EntityIndices(es) :
                   /\ es[n].kind \in {BATTERY, GAS_WATER, GAS_HEATING}
                   /\ \E pos \in ps : /\ es[n]._device_id = devs[pos[1]].id
                                      /\ es[n]._module_id = ModuleAt(devs, pos).id
             /\ \A pos \in ps : \A kind \in {BATTERY, GAS_WATER, GAS_HEATING} :
                   Cardinality({n \in EntityIndices(es) :
                                   /\ es[n].kind = kind
                                   /\ es[n]._device_id = devs[pos[1]].id
                                   /\ es[n]._module_id = ModuleAt(devs, pos).id})
                     = Cardinality({q \in ps : /\ devs[q[1]].id = devs[pos[1]].id
                                               /\ ModuleAt(devs, q).id = ModuleAt(devs, pos).id})
      ]_vars

\* setup ran for two devices with one module each
C6_Witness ==
    /\ add_calls = 1
    /\ Len(entities) = 6
    /\ Len(data.order) = 2
    /\ \E n \in EntityIndices(entities) :
          entities[n] = VaillantEntity(GAS_HEATING, "d2", "m2")

\* C7: whatever the order in which the gathered requests complete, every field of every
\* module is merged from the one response given to the request issued for that module
\* and that field's measurement type, and that request carried the module's own ids.
C7_OwnResponseOnly ==
    Merged =>
        \A pos \in PosSet(fetched) : \A t \in MeasurementTypes :
            LET mine == {a \in answered : a.owner = pos /\ a.type = t} IN
            /\ Cardinality(mine) = 1
            /\ \A a \in mine :
                /\ a.device_id = fetched[pos[1]].id
                /\ a.module_id = ModuleAt(fetched, pos).id
                /\ Field(ModuleAt(devices, pos), t) =
                      IF t \in {TEMPERATURE, SETPOINT_TEMPERATURE}
                      THEN _get_measurement_value(a.result, Field(ModuleAt(fetched, pos), t))
                      ELSE _get_energy_measurement_value(a.result, Field(ModuleAt(fetched, pos), t))

\* two modules with the same fetched state got different responses and differ after the merge
C7_Witness ==
    /\ Merged
    /\ \E p, q \in PosSet(fetched) :
        /\ p # q
        /\ ModuleAt(fetched, p).measured = ModuleAt(fetched, q).measured
        /\ \A t \in MeasurementTypes :
              Field(ModuleAt(devices, p), t) # Field(ModuleAt(devices, q), t)

GasEntities == {n \in EntityIndices(entities) : entities[n].kind \in {GAS_WATER, GAS_HEATING}}

\* C8 as stated: after a successful poll cycle every gas sensor (whose module the data
\* holds) has a native value, the last element of its merged usage list, and the whole
\* list as historical_values, also when the merge fell back to the default value.
C8_GasValueDefined ==
    (add_calls = 1 /\ CycleEnded /\ outcome = "VaillantData") =>
        \A n \in GasEntities :
            Resolves(entities[n], data) =>
                LET usage == GasList(entities[n], data) IN
                /\ native_value(entities[n], data) # IndexError
                /\ usage # <<>>
                /\ native_value(entities[n], data) = Str(usage[Len(usage)])
                /\ historical_values(entities[n], data) = Str(usage)

\* C9 as stated: every entity created by async_setup_entry resolves its device and its
\* module in the current coordinator data.
C9_EntitiesResolve ==
    add_calls = 1 => \A n \in EntityIndices(entities) : Resolves(entities[n], data)

\* the module ids of the devices of the data are pairwise distinct
DistinctModuleIds(d) ==
    LET devs == DictValues(d) IN
    \A p, q \in PosSet(devs) : ModuleAt(devs, p).id = ModuleAt(devs, q).id => p = q

\* no module id is another module id followed by a gas sensor's suffix
NoSuffixClash(d) ==
    LET devs == DictValues(d) IN
    \A p, q \in PosSet(devs) :
        /\ ModuleAt(devs, p).id # ModuleAt(devs, q).id \o "_gas_water"
        /\ ModuleAt(devs, p).id # ModuleAt(devs, q).id \o "_gas_heating"

UniqueIdsDistinct ==
    \A n, j \in EntityIndices(entities) :
        unique_id(entities[n], data) = unique_id(entities[j], data) => n = j

AllResolve == \A n \in EntityIndices(entities) : Resolves(entities[n], data)

====
